---- MODULE Spec2Model ----
(***************************************************************************)
(* Model of sorted_queue::SortedQueue (src/src/lib.rs): an indexed binary  *)
(* heap.  The queue value is a record                                      *)
(*     [heap |-> sequence of <<priority, item>>,                           *)
(*      comp |-> TRUE for new(true) (a > b), FALSE for new(false) (a < b), *)
(*      map  |-> function from item identities to 0-based heap indices].   *)
(* Heap indices are 0-based as in the source; At(h, i) reads slot i.       *)
(***************************************************************************)
EXTENDS Integers, Sequences, FiniteSets, TLC

VARIABLES q, net, assigned, hist

vars == <<q, net, assigned, hist>>

\* ------------------------------------------------------------------ bounds
NumItems == 4
MaxPrio == 1
MaxEmptyDeq == 2
NumDupItems == 2
MaxDupHeap == 3

Items == 1 .. NumItems
Prios == 0 .. MaxPrio
DupItems == 1 .. NumDupItems

\* ------------------------------------------------------- HashMap<&F, usize>
EmptyMap == [x \in {} |-> 0]

map_insert(m, k, v) == [x \in (DOMAIN m) \cup {k} |-> IF x = k THEN v ELSE m[x]]

map_remove(m, k) == [x \in (DOMAIN m) \ {k} |-> m[x]]

\* ------------------------------------------------------------ Vec<(T, &F)>
At(h, i) == h[i + 1]

SetAt(h, i, e) == [h EXCEPT ![i + 1] = e]

\* --------------------------------------------------------------- the queue
new(max) == [heap |-> <<>>, comp |-> max, map |-> EmptyMap]

\* mutant: new(false) installs the same closure as new(true)
comp_AlwaysGreater(s, x, y) == x[1] > y[1]

\* (self.comp)(x, y): compares the priorities of two entries
comp(s, x, y) == IF s.comp THEN x[1] > y[1] ELSE x[1] < y[1]

\* mutant: the two slots are exchanged and the position index is left alone
swap_StaleIndex(s, i1, i2) ==
    LET temp == At(s.heap, i1)
        h1 == SetAt(s.heap, i1, At(s.heap, i2))
        h2 == SetAt(h1, i2, temp)
    IN  [s EXCEPT !.heap = h2]

\* mutant: the entry saved in `temp` is never written back
swap_LosesTemp(s, i1, i2) ==
    LET o1 == At(s.heap, i1)[2]
        o2 == At(s.heap, i2)[2]
        m1 == map_insert(s.map, o1, i2)
        m2 == map_insert(m1, o2, i1)
        h1 == SetAt(s.heap, i1, At(s.heap, i2))
    IN  [s EXCEPT !.heap = h1, !.map = m2]

swap(s, i1, i2) ==
    LET o1 == At(s.heap, i1)[2]
        o2 == At(s.heap, i2)[2]
        m1 == map_insert(s.map, o1, i2)
        m2 == map_insert(m1, o2, i1)
        temp == At(s.heap, i1)
        h1 == SetAt(s.heap, i1, At(s.heap, i2))
        h2 == SetAt(h1, i2, temp)
    IN  [s EXCEPT !.heap = h2, !.map = m2]

RECURSIVE sift_down_loop(_, _)
sift_down_loop(s, index) ==
    LET swap_index == 2 * index + 1 IN
    IF swap_index >= Len(s.heap) THEN s
    ELSE IF \/ swap_index + 1 = Len(s.heap)
            \/ comp(s, At(s.heap, swap_index), At(s.heap, swap_index + 1))
         THEN IF comp(s, At(s.heap, swap_index), At(s.heap, index))
              THEN sift_down_loop(swap(s, index, swap_index), swap_index)
              ELSE s
         ELSE IF comp(s, At(s.heap, swap_index + 1), At(s.heap, index))
              THEN sift_down_loop(swap(s, index, swap_index + 1), swap_index + 1)
              ELSE s

\* mutant: on equal children the left child is the candidate
RECURSIVE sift_down_loop_LeftOnTie(_, _)
sift_down_loop_LeftOnTie(s, index) ==
    LET swap_index == 2 * index + 1 IN
    IF swap_index >= Len(s.heap) THEN s
    ELSE IF \/ swap_index + 1 = Len(s.heap)
            \/ ~comp(s, At(s.heap, swap_index + 1), At(s.heap, swap_index))
         THEN IF comp(s, At(s.heap, swap_index), At(s.heap, index))
              THEN sift_down_loop_LeftOnTie(swap(s, index, swap_index), swap_index)
              ELSE s
         ELSE IF comp(s, At(s.heap, swap_index + 1), At(s.heap, index))
              THEN sift_down_loop_LeftOnTie(swap(s, index, swap_index + 1),
                                            swap_index + 1)
              ELSE s

sift_down_LeftOnTie(s, index) ==
    IF Len(s.heap) <= 1 THEN s ELSE sift_down_loop_LeftOnTie(s, index)

sift_down(s, index) ==
    IF Len(s.heap) <= 1 THEN s ELSE sift_down_loop(s, index)

\* The loop body recomputes swap_index from `index`, and `index` is never
\* reassigned inside the loop (lib.rs:120-130).
RECURSIVE sift_up_loop(_, _)
sift_up_loop(s, index) ==
    LET swap_index == (index - 1) \div 2 IN
    IF comp(s, At(s.heap, index), At(s.heap, swap_index))
    THEN LET s2 == swap(s, index, swap_index) IN
         IF swap_index = 0 THEN s2 ELSE sift_up_loop(s2, index)
    ELSE s

sift_up(s, index) ==
    IF Len(s.heap) <= 1 \/ index = 0 THEN s ELSE sift_up_loop(s, index)

\* One pass through the body of the loop of sift_down (lib.rs:93-110):
\* the queue and `index` after the pass, and whether the loop goes round again.
sift_down_pass(s, index) ==
    LET swap_index == 2 * index + 1 IN
    IF swap_index >= Len(s.heap)
    THEN [q |-> s, index |-> index, again |-> FALSE]
    ELSE IF \/ swap_index + 1 = Len(s.heap)
            \/ comp(s, At(s.heap, swap_index), At(s.heap, swap_index + 1))
         THEN IF comp(s, At(s.heap, swap_index), At(s.heap, index))
              THEN [q |-> swap(s, index, swap_index), index |-> swap_index,
                    again |-> TRUE]
              ELSE [q |-> s, index |-> index, again |-> FALSE]
         ELSE IF comp(s, At(s.heap, swap_index + 1), At(s.heap, index))
              THEN [q |-> swap(s, index, swap_index + 1), index |-> swap_index + 1,
                    again |-> TRUE]
              ELSE [q |-> s, index |-> index, again |-> FALSE]

\* mutant: the entry is swapped with its parent also when the two are equal
sift_up_pass_SwapsOnEqual(s, index) ==
    LET swap_index == (index - 1) \div 2 IN
    IF ~comp(s, At(s.heap, swap_index), At(s.heap, index))
    THEN [q |-> swap(s, index, swap_index), index |-> index,
          again |-> swap_index # 0]
    ELSE [q |-> s, index |-> index, again |-> FALSE]

\* One pass through the body of the loop of sift_up (lib.rs:121-129); `index`
\* is the same after the pass as before it.
sift_up_pass(s, index) ==
    LET swap_index == (index - 1) \div 2 IN
    IF comp(s, At(s.heap, index), At(s.heap, swap_index))
    THEN [q |-> swap(s, index, swap_index), index |-> index,
          again |-> swap_index # 0]
    ELSE [q |-> s, index |-> index, again |-> FALSE]

\* mutant: an identity that is already mapped is not enqueued again
enq_RejectsDuplicate(s, value, data) ==
    IF data \in DOMAIN s.map THEN s
    ELSE LET new_index == Len(s.heap)
             s1 == [s EXCEPT !.heap = Append(s.heap, <<value, data>>)]
             s2 == [s1 EXCEPT !.map = map_insert(s1.map, data, new_index)]
         IN  sift_up(s2, new_index)

enq(s, value, data) ==
    LET new_index == Len(s.heap)
        s1 == [s EXCEPT !.heap = Append(s.heap, <<value, data>>)]
        s2 == [s1 EXCEPT !.map = map_insert(s1.map, data, new_index)]
    IN  sift_up(s2, new_index)

\* mutant: the last slot is read but never removed from the heap store
deq_NoRemove(s) ==
    IF Len(s.heap) = 0 THEN [q |-> s, ret |-> <<"None">>]
    ELSE LET s1 == swap(s, 0, Len(s.heap) - 1)
             rem == At(s1.heap, Len(s1.heap) - 1)
             s3 == sift_down(s1, 0)
             s4 == [s3 EXCEPT !.map = map_remove(s3.map, rem[2])]
         IN  [q |-> s4, ret |-> <<"Some", rem[1], rem[2]>>]

\* mutant: the extracted item's mapping stays in the position index
deq_KeepsMapping(s) ==
    IF Len(s.heap) = 0 THEN [q |-> s, ret |-> <<"None">>]
    ELSE LET s1 == swap(s, 0, Len(s.heap) - 1)
             rem == At(s1.heap, Len(s1.heap) - 1)
             s2 == [s1 EXCEPT !.heap = SubSeq(s1.heap, 1, Len(s1.heap) - 1)]
             s3 == sift_down(s2, 0)
         IN  [q |-> s3, ret |-> <<"Some", rem[1], rem[2]>>]

\* mutant: the mapping removed is the one of the entry left at the root, not
\* the one of the entry extracted
deq_RemovesRootMapping(s) ==
    IF Len(s.heap) = 0 THEN [q |-> s, ret |-> <<"None">>]
    ELSE LET s1 == swap(s, 0, Len(s.heap) - 1)
             rem == At(s1.heap, Len(s1.heap) - 1)
             s2 == [s1 EXCEPT !.heap = SubSeq(s1.heap, 1, Len(s1.heap) - 1)]
             s3 == sift_down(s2, 0)
             s4 == IF Len(s3.heap) = 0 THEN s3
                   ELSE [s3 EXCEPT !.map = map_remove(s3.map, At(s3.heap, 0)[2])]
         IN  [q |-> s4, ret |-> <<"Some", rem[1], rem[2]>>]

\* mutant: the root's mapping is removed before the swap, which maps the root
\* identity to the last slot again
deq_RemovesMappingFirst(s) ==
    IF Len(s.heap) = 0 THEN [q |-> s, ret |-> <<"None">>]
    ELSE LET s0 == [s EXCEPT !.map = map_remove(s.map, At(s.heap, 0)[2])]
             s1 == swap(s0, 0, Len(s0.heap) - 1)
             rem == At(s1.heap, Len(s1.heap) - 1)
             s2 == [s1 EXCEPT !.heap = SubSeq(s1.heap, 1, Len(s1.heap) - 1)]
             s3 == sift_down(s2, 0)
         IN  [q |-> s3, ret |-> <<"Some", rem[1], rem[2]>>]

\* returns [q |-> the queue afterwards, ret |-> <<"None">> or <<"Some", value, item>>]
deq(s) ==
    IF Len(s.heap) = 0 THEN [q |-> s, ret |-> <<"None">>]
    ELSE LET s1 == swap(s, 0, Len(s.heap) - 1)
             rem == At(s1.heap, Len(s1.heap) - 1)
             s2 == [s1 EXCEPT !.heap = SubSeq(s1.heap, 1, Len(s1.heap) - 1)]
             s3 == sift_down(s2, 0)
             s4 == [s3 EXCEPT !.map = map_remove(s3.map, rem[2])]
         IN  [q |-> s4, ret |-> <<"Some", rem[1], rem[2]>>]

\* mutant: the weight is read from the root slot instead of the indexed slot
get_weight_ReadsRoot(s, obj) ==
    IF obj \notin DOMAIN s.map THEN <<"None">>
    ELSE IF Len(s.heap) = 0 THEN <<"Panic">>
    ELSE <<"Some", At(s.heap, 0)[1]>>

\* self.heap[i] with i >= len is a bounds-check panic: <<"Panic">>
get_weight(s, obj) ==
    IF obj \notin DOMAIN s.map THEN <<"None">>
    ELSE LET heap_index == s.map[obj] IN
         IF heap_index >= Len(s.heap) THEN <<"Panic">>
         ELSE <<"Some", At(s.heap, heap_index)[1]>>

\* mutant: an identity without a mapping is accepted silently
change_priority_IgnoresMissing(s, new_value, data) ==
    IF data \notin DOMAIN s.map THEN [q |-> s, ret |-> <<"Ok">>]
    ELSE LET index == s.map[data] IN
         IF index >= Len(s.heap) THEN [q |-> s, ret |-> <<"Panic">>]
         ELSE LET old_val == At(s.heap, index)[1]
                  s1 == [s EXCEPT !.heap = SetAt(s.heap, index, <<new_value, data>>)]
              IN  IF comp(s, <<old_val, data>>, <<new_value, data>>)
                  THEN [q |-> sift_down(s1, index), ret |-> <<"Ok">>]
                  ELSE [q |-> sift_up(s1, index), ret |-> <<"Ok">>]

change_priority(s, new_value, data) ==
    IF data \notin DOMAIN s.map THEN [q |-> s, ret |-> <<"Err", "NotInQueue">>]
    ELSE LET index == s.map[data] IN
         IF index >= Len(s.heap) THEN [q |-> s, ret |-> <<"Panic">>]
         ELSE LET old_val == At(s.heap, index)[1]
                  s1 == [s EXCEPT !.heap = SetAt(s.heap, index, <<new_value, data>>)]
              IN  IF comp(s, <<old_val, data>>, <<new_value, data>>)
                  THEN [q |-> sift_down(s1, index), ret |-> <<"Ok">>]
                  ELSE [q |-> sift_up(s1, index), ret |-> <<"Ok">>]

\* mutant: the old identity's mapping is never removed
set_ref_KeepsOld(s, data, new_ref) ==
    IF data \notin DOMAIN s.map THEN [q |-> s, ret |-> <<"Err", "NotInQueue">>]
    ELSE LET index == s.map[data] IN
         IF index >= Len(s.heap) THEN [q |-> s, ret |-> <<"Panic">>]
         ELSE LET old_val == At(s.heap, index)[1]
                  s1 == [s EXCEPT !.heap = SetAt(s.heap, index, <<old_val, new_ref>>)]
                  s3 == [s1 EXCEPT !.map = map_insert(s1.map, new_ref, index)]
              IN  [q |-> s3, ret |-> <<"Ok">>]

\* mutant: the slot is rewritten with the root's priority instead of its own
set_ref_TakesRootPriority(s, data, new_ref) ==
    IF data \notin DOMAIN s.map THEN [q |-> s, ret |-> <<"Err", "NotInQueue">>]
    ELSE LET index == s.map[data] IN
         IF index >= Len(s.heap) THEN [q |-> s, ret |-> <<"Panic">>]
         ELSE LET old_val == At(s.heap, 0)[1]
                  s1 == [s EXCEPT !.heap = SetAt(s.heap, index, <<old_val, new_ref>>)]
                  s2 == [s1 EXCEPT !.map = map_remove(s1.map, data)]
                  s3 == [s2 EXCEPT !.map = map_insert(s2.map, new_ref, index)]
              IN  [q |-> s3, ret |-> <<"Ok">>]

set_ref(s, data, new_ref) ==
    IF data \notin DOMAIN s.map THEN [q |-> s, ret |-> <<"Err", "NotInQueue">>]
    ELSE LET index == s.map[data] IN
         IF index >= Len(s.heap) THEN [q |-> s, ret |-> <<"Panic">>]
         ELSE LET old_val == At(s.heap, index)[1]
                  s1 == [s EXCEPT !.heap = SetAt(s.heap, index, <<old_val, new_ref>>)]
                  s2 == [s1 EXCEPT !.map = map_remove(s1.map, data)]
                  s3 == [s2 EXCEPT !.map = map_insert(s2.map, new_ref, index)]
              IN  [q |-> s3, ret |-> <<"Ok">>]

size(s) == Len(s.heap)

\* ------------------------------------------------------------ state machine
\* q        the SortedQueue value
\* net      calls of enq minus calls of deq that returned an entry
\* assigned for each identity that was enqueued and not yet returned by deq,
\*          the priority most recently given to it by enq or change_priority;
\*          set_ref hands the binding of the old identity to the new one
\* hist     the log of calls with their arguments and results, kept by the
\*          scripted specifications only (SpecDrain logs its deq calls,
\*          SpecGraph every call); in SpecLoop, the record of the call that
\*          is inside a loop
\* What a call returns is the value of its operator in the state it is made
\* in.  get_weight and size take `&self`, and a call that returns Err or None
\* assigns nothing: such a call is a step that leaves every variable as it is.
Logged(op, args, ret) == [op |-> op, args |-> args, ret |-> ret]

Init ==
    /\ \E max \in BOOLEAN : q = new(max)
    /\ net = 0
    /\ assigned = EmptyMap
    /\ hist = <<>>

EnqCall(value, data) ==
    /\ q' = enq(q, value, data)
    /\ net' = net + 1
    /\ assigned' = map_insert(assigned, data, value)

DeqCall ==
    LET r == deq(q) IN
    /\ q' = r.q
    /\ net' = IF r.ret[1] = "Some" THEN net - 1 ELSE net
    /\ assigned' = IF r.ret[1] = "Some"
                   THEN map_remove(assigned, r.ret[3])
                   ELSE assigned

ChangePriorityCall(new_value, data) ==
    LET r == change_priority(q, new_value, data) IN
    /\ q' = r.q
    /\ net' = net
    /\ assigned' = IF r.ret[1] = "Ok"
                   THEN map_insert(assigned, data, new_value)
                   ELSE assigned

SetRefCall(data, new_ref) ==
    LET r == set_ref(q, data, new_ref) IN
    /\ q' = r.q
    /\ net' = net
    /\ assigned' = IF r.ret[1] = "Ok" /\ data \in DOMAIN assigned
                   THEN map_insert(map_remove(assigned, data), new_ref, assigned[data])
                   ELSE assigned

\* Spec: every interleaving of the public operations within the documented
\* contract: enq and a successful set_ref never introduce an identity that is
\* already enqueued.
Enq(value, data) ==
    /\ data \notin DOMAIN q.map
    /\ EnqCall(value, data)
    /\ UNCHANGED hist

Deq == DeqCall /\ UNCHANGED hist

ChangePriority(new_value, data) ==
    ChangePriorityCall(new_value, data) /\ UNCHANGED hist

SetRef(data, new_ref) ==
    /\ data \notin DOMAIN q.map \/ new_ref \notin DOMAIN q.map
    /\ SetRefCall(data, new_ref)
    /\ UNCHANGED hist

GetWeight(obj) ==
    /\ get_weight(q, obj)[1] \in {"None", "Some", "Panic"}
    /\ UNCHANGED vars

Size ==
    /\ size(q) \in Nat
    /\ UNCHANGED vars

Next ==
    \/ \E value \in Prios, data \in Items : Enq(value, data)
    \/ Deq
    \/ \E new_value \in Prios, data \in Items : ChangePriority(new_value, data)
    \/ \E data \in Items, new_ref \in Items : SetRef(data, new_ref)
    \/ \E obj \in Items : GetWeight(obj)
    \/ Size

Spec == Init /\ [][Next]_vars

\* SpecDrain: a queue is filled by enq calls with distinct identities and then
\* emptied by deq calls alone, which may go on (MaxEmptyDeq times) once the
\* queue is empty; hist logs the deq calls.
NoDeqYet == hist = <<>>

EmptyDeqs == Cardinality({i \in DOMAIN hist : hist[i].ret = <<"None">>})

DrainEnq(value, data) ==
    /\ NoDeqYet
    /\ data \notin DOMAIN q.map
    /\ EnqCall(value, data)
    /\ UNCHANGED hist

DrainDeq ==
    /\ size(q) > 0 \/ EmptyDeqs < MaxEmptyDeq
    /\ DeqCall
    /\ hist' = Append(hist, Logged("deq", <<>>, deq(q).ret))

NextDrain ==
    \/ \E value \in Prios, data \in Items : DrainEnq(value, data)
    \/ DrainDeq

SpecDrain == Init /\ [][NextDrain]_vars

\* SpecGraph: the graph-relaxation scenario of the specification (spec.md,
\* section 8) run on the queue's operations.  On a min-first queue node A is
\* enqueued at distance 0 and nodes B and C at "infinity" (i32::MAX); B is
\* relaxed to 4 and C to 2 (each once it is enqueued), then the queue is
\* emptied.  The nodes, the priorities and the order of the calls are those of
\* the scenario; tests::graph_queue is another run (SpecGraphTest below): it
\* never enqueues its source and relaxes along its own edges.
Infinity == 2147483647

GraphNodes == {"A", "B", "C"}

SeedPriority(x) == IF x = "A" THEN 0 ELSE Infinity

RelaxedPriority(x) == IF x = "B" THEN 4 ELSE 2

Enqueued(x) == \E i \in DOMAIN hist : hist[i].op = "enq" /\ hist[i].args[2] = x

Relaxed(x) ==
    \E i \in DOMAIN hist : hist[i].op = "change_priority" /\ hist[i].args[2] = x

InitGraph ==
    /\ q = new(FALSE)
    /\ net = 0
    /\ assigned = EmptyMap
    /\ hist = <<>>

GraphEnq(x) ==
    /\ ~Enqueued(x)
    /\ EnqCall(SeedPriority(x), x)
    /\ hist' = Append(hist, Logged("enq", <<SeedPriority(x), x>>, <<"Unit">>))

GraphRelax(x) ==
    /\ Enqueued(x)
    /\ ~Relaxed(x)
    /\ ChangePriorityCall(RelaxedPriority(x), x)
    /\ hist' = Append(hist, Logged("change_priority", <<RelaxedPriority(x), x>>,
                                   change_priority(q, RelaxedPriority(x), x).ret))

GraphDeq ==
    /\ \A x \in GraphNodes : Enqueued(x)
    /\ \A x \in {"B", "C"} : Relaxed(x)
    /\ size(q) > 0
    /\ DeqCall
    /\ hist' = Append(hist, Logged("deq", <<>>, deq(q).ret))

NextGraph ==
    \/ \E x \in GraphNodes : GraphEnq(x)
    \/ \E x \in {"B", "C"} : GraphRelax(x)
    \/ GraphDeq

SpecGraph == InitGraph /\ [][NextGraph]_vars

\* SpecGraphTest: the run of tests::graph_queue (lib.rs:272-325), a shortest
\* path search from node 0 over six nodes, one step per queue call.  A node's
\* identity is its index.  Nodes 1..5 are enqueued at i32::MAX; each round
\* relaxes the edges of the current node in list order and then asks size()
\* and, unless it is 0, takes the next node by deq.  hist logs the calls; the
\* test's `weights`, its current node and its place in the edge list are read
\* from the log.  No sum of this data overflows an i32, and no edge list names
\* a node twice.
adjacency_list ==
    << <<<<1, 4>>, <<2, 3>>>>,
       <<<<2, 5>>, <<3, 2>>>>,
       <<<<3, 7>>>>,
       <<<<4, 2>>>>,
       <<<<0, 4>>, <<1, 4>>, <<5, 6>>>>,
       <<>> >>

\* the last position of h that holds a call of op, 0 when there is none
LastCall(h, op) ==
    LET done == {j \in DOMAIN h : h[j].op = op}
    IN  IF done = {} THEN 0 ELSE CHOOSE j \in done : \A k \in done : k <= j

\* weights[index] after the calls logged in h
weights(h, index) ==
    LET done == {j \in DOMAIN h : /\ h[j].op = "change_priority"
                                  /\ h[j].args[2] = index}
    IN  IF done = {} THEN (IF index = 0 THEN 0 ELSE Infinity)
        ELSE h[CHOOSE j \in done : \A k \in done : k <= j].args[1]

\* (cur_weight, cur_node.index) after the calls logged in h
cur(h) ==
    IF LastCall(h, "deq") = 0 THEN <<0, 0>>
    ELSE <<h[LastCall(h, "deq")].ret[2], h[LastCall(h, "deq")].ret[3]>>

\* the positions in the current node's edge list that the inner loop
\* (lib.rs:297-305) has still to relax: those behind the edge relaxed last in
\* this round whose total_weight is below weights[index]
Pending(h) ==
    LET edges == adjacency_list[cur(h)[2] + 1]
        last == LastCall(h, "change_priority")
        at == IF last > LastCall(h, "deq")
              THEN CHOOSE k \in DOMAIN edges : edges[k][1] = h[last].args[2]
              ELSE 0
    IN  {k \in DOMAIN edges :
            /\ k > at
            /\ edges[k][2] + cur(h)[1] < weights(h, edges[k][1])}

\* unwrap() of an Err, or the break at size() == 0, ends the test
Ended(h) ==
    /\ h # <<>>
    /\ \/ h[Len(h)].op = "change_priority" /\ h[Len(h)].ret[1] = "Err"
       \/ h[Len(h)].op = "size"

TestEnq ==
    /\ Len(hist) < Len(adjacency_list) - 1
    /\ EnqCall(Infinity, Len(hist) + 1)
    /\ hist' = Append(hist, Logged("enq", <<Infinity, Len(hist) + 1>>, <<"Unit">>))

TestRelax ==
    /\ Len(hist) >= Len(adjacency_list) - 1
    /\ ~Ended(hist)
    /\ Pending(hist) # {}
    /\ LET k == CHOOSE k \in Pending(hist) : \A m \in Pending(hist) : k <= m
           edge == adjacency_list[cur(hist)[2] + 1][k]
           total_weight == edge[2] + cur(hist)[1]
       IN  /\ ChangePriorityCall(total_weight, edge[1])
           /\ hist' = Append(hist, Logged("change_priority", <<total_weight, edge[1]>>,
                                          change_priority(q, total_weight, edge[1]).ret))

\* `if queue.size() == 0 { break; }` and the deq that follows (lib.rs:306-311)
TestDeq ==
    /\ Len(hist) >= Len(adjacency_list) - 1
    /\ ~Ended(hist)
    /\ Pending(hist) = {}
    /\ IF size(q) = 0
       THEN /\ hist' = Append(hist, Logged("size", <<>>, <<0>>))
            /\ UNCHANGED <<q, net, assigned>>
       ELSE /\ DeqCall
            /\ hist' = Append(hist, Logged("deq", <<>>, deq(q).ret))

NextGraphTest == TestEnq \/ TestRelax \/ TestDeq

SpecGraphTest == InitGraph /\ [][NextGraphTest]_vars

\* SpecDup: every sequence of public calls, those outside the documented
\* contract included: enq of an identity that is already enqueued and set_ref
\* onto an identity that is already enqueued.  Nothing in the code rejects
\* them.  The heap store holds at most MaxDupHeap entries.  `assigned` is not
\* kept here: once an identity sits in two slots it has no single priority.
DupEnq(value, data) ==
    /\ size(q) < MaxDupHeap
    /\ q' = enq(q, value, data)
    /\ net' = net + 1
    /\ UNCHANGED <<assigned, hist>>

DupDeq ==
    /\ q' = deq(q).q
    /\ net' = IF deq(q).ret[1] = "Some" THEN net - 1 ELSE net
    /\ UNCHANGED <<assigned, hist>>

DupChangePriority(new_value, data) ==
    /\ q' = change_priority(q, new_value, data).q
    /\ UNCHANGED <<net, assigned, hist>>

DupSetRef(data, new_ref) ==
    /\ q' = set_ref(q, data, new_ref).q
    /\ UNCHANGED <<net, assigned, hist>>

NextDup ==
    \/ \E value \in Prios, data \in DupItems : DupEnq(value, data)
    \/ DupDeq
    \/ \E new_value \in Prios, data \in DupItems :
          DupChangePriority(new_value, data)
    \/ \E data \in DupItems, new_ref \in DupItems : DupSetRef(data, new_ref)
    \/ \E obj \in DupItems : GetWeight(obj)
    \/ Size

SpecDup == Init /\ [][NextDup]_vars

\* SpecLoop: enq, deq and change_priority within the documented contract,
\* with the loops of sift_up and sift_down observed at their back edge: a call
\* runs up to the end of the first pass of its loop, and every further pass is
\* a step of its own.  While a call is inside a loop, hist holds its one
\* record: the call, the loop, the value of `index`, the passes made so far
\* and (for deq) the entry removed; between calls hist is empty.  A call runs
\* to completion once made (the code is synchronous), which is weak fairness
\* of the two pass actions.
Running == hist # <<>>

InLoop(op, loop, index, rem) ==
    [op |-> op, loop |-> loop, index |-> index, iters |-> 0, rem |-> rem]

\* queue s and the record of the call after one more pass of the loop of call
\* record f; when the loop exits the call returns (deq first removes the
\* mapping of the entry it extracted, lib.rs:157)
AfterPass(s, f) ==
    LET r == IF f.loop = "sift_up" THEN sift_up_pass(s, f.index)
             ELSE sift_down_pass(s, f.index)
    IN  [q |-> IF ~r.again /\ f.op = "deq"
               THEN [r.q EXCEPT !.map = map_remove(r.q.map, f.rem[2])]
               ELSE r.q,
         hist |-> IF r.again
                  THEN <<[f EXCEPT !.index = r.index, !.iters = @ + 1]>>
                  ELSE <<>>]

LoopEnq(value, data) ==
    /\ ~Running
    /\ data \notin DOMAIN q.map
    /\ LET new_index == Len(q.heap)
           s1 == [q EXCEPT !.heap = Append(q.heap, <<value, data>>)]
           s2 == [s1 EXCEPT !.map = map_insert(s1.map, data, new_index)]
           r == AfterPass(s2, InLoop("enq", "sift_up", new_index, <<>>))
       IN  IF Len(s2.heap) <= 1 \/ new_index = 0
           THEN q' = s2 /\ hist' = <<>>
           ELSE q' = r.q /\ hist' = r.hist
    /\ net' = net + 1
    /\ assigned' = map_insert(assigned, data, value)

LoopDeq ==
    /\ ~Running
    /\ IF Len(q.heap) = 0 THEN UNCHANGED vars
       ELSE LET s1 == swap(q, 0, Len(q.heap) - 1)
                rem == At(s1.heap, Len(s1.heap) - 1)
                s2 == [s1 EXCEPT !.heap = SubSeq(s1.heap, 1, Len(s1.heap) - 1)]
                r == AfterPass(s2, InLoop("deq", "sift_down", 0, rem))
            IN  /\ IF Len(s2.heap) <= 1
                   THEN /\ q' = [s2 EXCEPT !.map = map_remove(s2.map, rem[2])]
                        /\ hist' = <<>>
                   ELSE /\ q' = r.q
                        /\ hist' = r.hist
                /\ net' = net - 1
                /\ assigned' = map_remove(assigned, rem[2])

LoopChangePriority(new_value, data) ==
    /\ ~Running
    /\ IF data \notin DOMAIN q.map THEN UNCHANGED vars
       ELSE LET index == q.map[data]
                old_val == At(q.heap, index)[1]
                s1 == [q EXCEPT !.heap = SetAt(q.heap, index, <<new_value, data>>)]
                down == comp(q, <<old_val, data>>, <<new_value, data>>)
                r == AfterPass(s1, InLoop("change_priority",
                                          IF down THEN "sift_down" ELSE "sift_up",
                                          index, <<>>))
            IN  /\ IF Len(s1.heap) <= 1 \/ (~down /\ index = 0)
                   THEN q' = s1 /\ hist' = <<>>
                   ELSE q' = r.q /\ hist' = r.hist
                /\ net' = net
                /\ assigned' = map_insert(assigned, data, new_value)

SiftUpPass ==
    /\ Running
    /\ hist[1].loop = "sift_up"
    /\ q' = AfterPass(q, hist[1]).q
    /\ hist' = AfterPass(q, hist[1]).hist
    /\ UNCHANGED <<net, assigned>>

SiftDownPass ==
    /\ Running
    /\ hist[1].loop = "sift_down"
    /\ q' = AfterPass(q, hist[1]).q
    /\ hist' = AfterPass(q, hist[1]).hist
    /\ UNCHANGED <<net, assigned>>

NextLoop ==
    \/ \E value \in Prios, data \in Items : LoopEnq(value, data)
    \/ LoopDeq
    \/ \E new_value \in Prios, data \in Items : LoopChangePriority(new_value, data)
    \/ SiftUpPass
    \/ SiftDownPass

SpecLoop ==
    Init /\ [][NextLoop]_vars /\ WF_vars(SiftUpPass) /\ WF_vars(SiftDownPass)

\* ------------------------------------------------------------------ claims
Parent(i) == (i - 1) \div 2

\* a is "not worse than" b under the queue's ordering: a >= b for a max-first
\* queue, a <= b for a min-first queue
NotWorse(s, a, b) == IF s.comp THEN a >= b ELSE a <= b

Priorities(s) == {At(s.heap, i)[1] : i \in 0 .. Len(s.heap) - 1}

StoredItems(s) == {At(s.heap, i)[2] : i \in 0 .. Len(s.heap) - 1}

\* the results of the deq calls logged so far that returned an entry, in call
\* order
RECURSIVE DeqResults(_)
DeqResults(h) ==
    IF h = <<>> THEN <<>>
    ELSE IF Head(h).op = "deq" /\ Head(h).ret[1] = "Some"
         THEN <<Head(h).ret>> \o DeqResults(Tail(h))
         ELSE DeqResults(Tail(h))

\* in SpecDrain, the number of entries the queue held before the i-th logged
\* deq call: what it holds now and what was extracted since
SizeBefore(i) ==
    size(q) + Cardinality({j \in i .. Len(hist) : hist[j].ret[1] = "Some"})

\* C1: after every public operation, every non-root slot i holds an entry that
\* its parent slot (i-1)/2 is not worse than (parent >= child for max-first,
\* parent <= child for min-first).
C1_HeapInvariant ==
    \A i \in 1 .. Len(q.heap) - 1 :
        NotWorse(q, At(q.heap, Parent(i))[1], At(q.heap, i)[1])

\* C2: in every reachable non-empty state, deq returns an entry whose priority
\* is the maximum (max-first) or minimum (min-first) of all priorities stored.
C2_DeqReturnsExtreme ==
    size(q) > 0 =>
        /\ deq(q).ret[1] = "Some"
        /\ \A p \in Priorities(q) : NotWorse(q, deq(q).ret[2], p)

\* C3: when a queue is filled by enq calls and then emptied by deq calls alone,
\* the priorities come out in non-increasing order (max-first) or
\* non-decreasing order (min-first).
C3_ExtractionOrder ==
    \A i, j \in DOMAIN DeqResults(hist) :
        i < j => NotWorse(q, DeqResults(hist)[i][2], DeqResults(hist)[j][2])

\* C4: the position index is a bijection with the heap store: the item in slot
\* i is mapped to i, the index has no mapping for an item that is not stored,
\* and there are exactly size() mappings.
C4_IndexConsistency ==
    /\ \A i \in 0 .. Len(q.heap) - 1 :
          /\ At(q.heap, i)[2] \in DOMAIN q.map
          /\ q.map[At(q.heap, i)[2]] = i
    /\ DOMAIN q.map = StoredItems(q)
    /\ Cardinality(DOMAIN q.map) = size(q)

\* entries were extracted (an identity is missing) and moved by swaps (the
\* slots are not in the order of the priorities given), and still every stored
\* item is found
C4_Witness ==
    /\ size(q) = 3
    /\ DOMAIN q.map # Items
    /\ At(q.heap, 1)[1] # At(q.heap, 2)[1]
    /\ \A x \in StoredItems(q) : get_weight(q, x)[1] = "Some"

\* C5: on a min-first queue seeded with A at 0 and B, C at infinity, both
\* change_priority(4, B) and change_priority(2, C) succeed and the deq calls
\* that follow return A, then C, then B.
C5_GraphRelaxation ==
    /\ \A i \in DOMAIN hist :
          hist[i].op = "change_priority" => hist[i].ret = <<"Ok">>
    /\ \A i \in DOMAIN DeqResults(hist) :
          DeqResults(hist)[i] =
              <<<<"Some", 0, "A">>, <<"Some", 2, "C">>, <<"Some", 4, "B">>>>[i]

\* the three nodes were seeded, both relaxations done and the queue emptied
C5_Witness ==
    /\ Len(DeqResults(hist)) = 3
    /\ Relaxed("B") /\ Relaxed("C")
    /\ size(q) = 0

\* C6: in every reachable state size() is the number of enq calls minus the
\* number of deq calls that returned an entry; enq makes it one larger, a deq
\* that returns an entry one smaller, and change_priority and set_ref (Ok or
\* Err), get_weight and a deq returning None leave it as it is.
C6_SizeAccounting ==
    /\ size(q) = net
    /\ \A value \in Prios : \A data \in Items \ DOMAIN q.map :
          size(enq(q, value, data)) = size(q) + 1
    /\ size(deq(q).q) = IF deq(q).ret[1] = "Some" THEN size(q) - 1 ELSE size(q)
    /\ size(q) > 0 => deq(q).ret[1] = "Some"
    /\ \A value \in Prios : \A data \in Items :
          size(change_priority(q, value, data).q) = size(q)
    /\ \A data \in Items : \A new_ref \in Items :
          (data \notin DOMAIN q.map \/ new_ref \notin DOMAIN q.map)
              => size(set_ref(q, data, new_ref).q) = size(q)

\* a queue of three entries with an identity to spare: enq makes it four, deq
\* returns an entry and makes it two
C6_Witness ==
    /\ net = 3
    /\ size(q) = 3
    /\ \E data \in Items \ DOMAIN q.map : size(enq(q, MaxPrio, data)) = 4
    /\ deq(q).ret[1] = "Some"
    /\ size(deq(q).q) = 2

\* C7: change_priority(p, x) and set_ref(x, y) with x absent from the position
\* index return the NotInQueue error and leave heap store, position index and
\* size() exactly as they were.
C7_NotFoundUntouched ==
    \A data \in Items \ DOMAIN q.map :
        /\ \A new_value \in Prios :
              change_priority(q, new_value, data)
                  = [q |-> q, ret |-> <<"Err", "NotInQueue">>]
        /\ \A new_ref \in Items :
              set_ref(q, data, new_ref)
                  = [q |-> q, ret |-> <<"Err", "NotInQueue">>]

\* a populated queue from which an identity is absent: both calls fail on it
C7_Witness ==
    /\ size(q) >= 2
    /\ \E data \in Items \ DOMAIN q.map :
          /\ change_priority(q, MaxPrio, data).ret = <<"Err", "NotInQueue">>
          /\ \E new_ref \in DOMAIN q.map :
                set_ref(q, data, new_ref).ret = <<"Err", "NotInQueue">>

\* C8: a queue that is empty (fresh, or every entry extracted by deq calls) is
\* exactly the queue new() built; deq on it returns None and leaves it so, and
\* every logged deq call made on an empty queue returned None.
C8_EmptyQueue ==
    /\ size(q) = 0 => /\ q = new(q.comp)
                      /\ deq(q) = [q |-> q, ret |-> <<"None">>]
    /\ \A i \in DOMAIN hist :
          (hist[i].op = "deq" /\ SizeBefore(i) = 0) => hist[i].ret = <<"None">>

\* entries were enqueued, all of them extracted, and deq then returned None
\* twice
C8_Witness ==
    /\ Len(DeqResults(hist)) >= 2
    /\ size(q) = 0
    /\ Len(hist) >= 2
    /\ hist[Len(hist)].ret = <<"None">>
    /\ hist[Len(hist) - 1].ret = <<"None">>

\* C9: in every reachable state, change_priority(p, x) on an enqueued x
\* returns Ok, and get_weight(x) right after it returns p.
C9_PriorityRoundTrip ==
    \A data \in DOMAIN q.map : \A new_value \in Prios :
        LET r == change_priority(q, new_value, data) IN
        /\ r.ret = <<"Ok">>
        /\ get_weight(r.q, data) = <<"Some", new_value>>

\* a change_priority moves its entry to another slot (sift-down from the root
\* of a three-level heap) and get_weight finds it there
C9_Witness ==
    /\ size(q) = NumItems
    /\ \E new_value \in Prios :
          LET data == At(q.heap, 0)[2]
              r == change_priority(q, new_value, data)
          IN  /\ r.q.map[data] > 0
              /\ get_weight(r.q, data) = <<"Some", new_value>>

\* C10: get_weight(x) returns the priority most recently assigned to x by enq
\* or change_priority for every enqueued x, whatever swaps other operations
\* caused, and None for an x that is not enqueued.
C10_GetWeightFaithful ==
    \A x \in Items :
        IF x \in DOMAIN assigned
        THEN get_weight(q, x) = <<"Some", assigned[x]>>
        ELSE get_weight(q, x) = <<"None">>

\* entries with different priorities are stored, root and last slot among
\* them, one identity is not enqueued, and each lookup finds its own priority
C10_Witness ==
    /\ size(q) >= 3
    /\ DOMAIN assigned # Items
    /\ \E x, y \in DOMAIN assigned :
          /\ assigned[x] # assigned[y]
          /\ q.map[x] = 0
          /\ q.map[y] = size(q) - 1
          /\ get_weight(q, x) = <<"Some", assigned[x]>>
          /\ get_weight(q, y) = <<"Some", assigned[y]>>

\* the priorities of the slots, in slot order
SlotPriorities(s) == [i \in 1 .. Len(s.heap) |-> s.heap[i][1]]

\* C11: when old is enqueued and new is not, set_ref(old, new) returns Ok;
\* afterwards get_weight(new) returns the priority old had, get_weight(old)
\* returns None, new occupies the slot old occupied, and the priority of every
\* slot, the order of the slots and size() are as before.
C11_SetRefRebindsIdentity ==
    \A data \in DOMAIN q.map : \A new_ref \in Items \ DOMAIN q.map :
        LET r == set_ref(q, data, new_ref) IN
        /\ r.ret = <<"Ok">>
        /\ get_weight(r.q, new_ref) = get_weight(q, data)
        /\ get_weight(q, data)[1] = "Some"
        /\ get_weight(r.q, data) = <<"None">>
        /\ r.q.map[new_ref] = q.map[data]
        /\ At(r.q.heap, q.map[data])[2] = new_ref
        /\ SlotPriorities(r.q) = SlotPriorities(q)
        /\ \A i \in 0 .. Len(q.heap) - 1 :
              i # q.map[data] => At(r.q.heap, i) = At(q.heap, i)
        /\ size(r.q) = size(q)

\* an identity in a slot below the root, holding a priority other than the
\* root's, is rebound to an identity that is not enqueued
C11_Witness ==
    /\ size(q) >= 3
    /\ \E data \in DOMAIN q.map : \E new_ref \in Items \ DOMAIN q.map :
          /\ q.map[data] > 0
          /\ At(q.heap, q.map[data])[1] # At(q.heap, 0)[1]
          /\ set_ref(q, data, new_ref).ret = <<"Ok">>
          /\ get_weight(set_ref(q, data, new_ref).q, new_ref) = get_weight(q, data)

\* x is not found by any lookup of queue s
NotFound(s, x) ==
    /\ get_weight(s, x) = <<"None">>
    /\ \A new_value \in Prios :
          change_priority(s, new_value, x).ret = <<"Err", "NotInQueue">>
    /\ \A new_ref \in Items : set_ref(s, x, new_ref).ret = <<"Err", "NotInQueue">>

\* C12: right after deq returns (p, x), get_weight(x) returns None and
\* change_priority(_, x) and set_ref(x, _) fail with NotInQueue, while every
\* other enqueued item is still found by get_weight; and this stays so in every
\* later state in which x has not been enqueued again.
C12_DequeuedItemGone ==
    /\ size(q) > 0 =>
          LET r == deq(q) IN
          /\ r.ret[1] = "Some"
          /\ r.ret[3] \in DOMAIN assigned
          /\ NotFound(r.q, r.ret[3])
          /\ \A y \in DOMAIN assigned \ {r.ret[3]} :
                get_weight(r.q, y) = <<"Some", assigned[y]>>
    /\ \A x \in Items \ DOMAIN assigned : NotFound(q, x)

\* three entries are stored and one identity is not enqueued and not found;
\* deq extracts an entry, which is then not found either, and leaves the
\* others found with their priorities
C12_Witness ==
    /\ size(q) >= 3
    /\ net < NumItems
    /\ \E x \in Items \ DOMAIN assigned : NotFound(q, x)
    /\ NotFound(deq(q).q, deq(q).ret[3])
    /\ \E y \in DOMAIN assigned \ {deq(q).ret[3]} :
          get_weight(deq(q).q, y) = <<"Some", assigned[y]>>

\* the heap invariant of queue s: no slot is better than its parent slot
HeapOrdered(s) ==
    \A i \in 1 .. Len(s.heap) - 1 :
        NotWorse(s, At(s.heap, Parent(i))[1], At(s.heap, i)[1])

\* C13: from every state that satisfies the heap invariant, enq(p, x) leaves
\* the new entry in a slot whose parent (if any) is not worse than it, and the
\* heap invariant holds on return, whatever the depth of the heap.
C13_EnqSiftsAllTheWay ==
    HeapOrdered(q) =>
        \A value \in Prios : \A data \in Items \ DOMAIN q.map :
            LET r == enq(q, value, data)
                i == r.map[data]
            IN  /\ i > 0 => NotWorse(r, At(r.heap, Parent(i))[1], value)
                /\ HeapOrdered(r)

\* C14: from every state that satisfies the heap invariant and index
\* consistency, change_priority(p, x) on an enqueued x returns Ok, moves x
\* towards the leaves only when its old priority is better than p and towards
\* the root only otherwise, and the heap invariant holds for the whole heap
\* store on return.
C14_ChangePriorityRepairs ==
    (HeapOrdered(q) /\ C4_IndexConsistency) =>
        \A data \in DOMAIN q.map : \A new_value \in Prios :
            LET r == change_priority(q, new_value, data)
                old_val == At(q.heap, q.map[data])[1]
            IN  /\ r.ret = <<"Ok">>
                /\ IF comp(q, <<old_val, data>>, <<new_value, data>>)
                   THEN r.q.map[data] >= q.map[data]
                   ELSE r.q.map[data] <= q.map[data]
                /\ HeapOrdered(r.q)

\* a is strictly better than b under the ordering of queue s
Better(s, a, b) == ~NotWorse(s, b, a)

\* the slot of q that the first sift-down step of deq compares with the entry
\* moved to the root: the left child when the right child is gone or the left
\* is strictly better than the right, the right child otherwise
FirstCandidate ==
    IF size(q) < 4 \/ Better(q, At(q.heap, 1)[1], At(q.heap, 2)[1]) THEN 1 ELSE 2

\* C15: from every state with n >= 1 entries that satisfies the heap
\* invariant, deq returns the root entry and leaves n-1 entries that satisfy
\* the heap invariant; the new root is the candidate child (the left child when
\* there is no right child or the left is strictly better, the right child
\* otherwise, so the right child on equal priorities) when that child is
\* strictly better than the former last entry, and the former last entry
\* otherwise.
C15_DeqPreservesHeap ==
    (HeapOrdered(q) /\ size(q) >= 1) =>
        LET r == deq(q)
            last == At(q.heap, size(q) - 1)
        IN  /\ r.ret = <<"Some", At(q.heap, 0)[1], At(q.heap, 0)[2]>>
            /\ size(r.q) = size(q) - 1
            /\ HeapOrdered(r.q)
            /\ size(q) = 2 => At(r.q.heap, 0) = last
            /\ size(q) >= 3 =>
                  At(r.q.heap, 0) =
                      IF Better(q, At(q.heap, FirstCandidate)[1], last[1])
                      THEN At(q.heap, FirstCandidate)
                      ELSE last

\* a heap of four entries that satisfies the invariant, whose two children of
\* the root are equal and better than the last entry: deq makes the right
\* child the new root
C15_Witness ==
    /\ size(q) = 4
    /\ HeapOrdered(q)
    /\ At(q.heap, 1)[1] = At(q.heap, 2)[1]
    /\ Better(q, At(q.heap, 2)[1], At(q.heap, 3)[1])
    /\ At(deq(q).q.heap, 0) = At(q.heap, 2)
    /\ HeapOrdered(deq(q).q)

\* index consistency of queue s: every stored item is mapped to its own slot
\* and there are exactly size() mappings
IndexConsistent(s) ==
    /\ \A i \in 0 .. Len(s.heap) - 1 :
          /\ At(s.heap, i)[2] \in DOMAIN s.map
          /\ s.map[At(s.heap, i)[2]] = i
    /\ Cardinality(DOMAIN s.map) = size(s)

\* C16: every successful set_ref(old, new) made in an index-consistent state,
\* also one whose new identity is already enqueued in another slot, leaves
\* every stored item mapped to its own slot and as many mappings as size().
C16_SetRefKeepsConsistent ==
    IndexConsistent(q) =>
        \A data \in DupItems : \A new_ref \in DupItems :
            LET r == set_ref(q, data, new_ref) IN
            r.ret = <<"Ok">> => IndexConsistent(r.q)

\* the number of levels of a heap of n entries
RECURSIVE Levels(_)
Levels(n) == IF n = 0 THEN 0 ELSE 1 + Levels(n \div 2)

\* C17: the loops of sift_up and sift_down exit: a loop that is about to make
\* another pass has made fewer passes than the heap has levels, and every call
\* of enq, deq and change_priority that entered a loop returns.
C17_LoopsTerminate ==
    /\ [](Running => hist[1].iters < Levels(size(q)))
    /\ (Running ~> ~Running)

\* a sift_up that has swapped once on a three-level heap and is due for its
\* second pass, which ends it although the entry is not at the root
C17_Witness ==
    /\ Running
    /\ hist[1].loop = "sift_up"
    /\ hist[1].iters = 1
    /\ hist[1].index >= 3
    /\ ~sift_up_pass(q, hist[1].index).again

\* the slots of queue s that hold identity x, and those that hold entry e
SlotsOf(s, x) == {i \in 0 .. Len(s.heap) - 1 : At(s.heap, i)[2] = x}

Count(s, e) == Cardinality({i \in 0 .. Len(s.heap) - 1 : At(s.heap, i) = e})

\* C18: enq(p, x) of an identity x that is already mapped returns with size()
\* one larger and one more slot holding x (two at least), while the index has
\* fewer mappings than there are slots (it gains none when it was consistent
\* before) and maps x to one of these slots.  The lookups reach that slot
\* only: get_weight(x) reads it, change_priority(_, x) replaces that one entry
\* of x and no other, and set_ref(x, y) renames it alone, after which x is
\* still stored and no longer found.
C18_DuplicateEnqOrphans ==
    \A x \in DOMAIN q.map : \A value \in Prios :
        LET r == enq(q, value, x)
            w == At(r.heap, r.map[x])[1]
        IN  /\ size(r) = size(q) + 1
            /\ Cardinality(SlotsOf(r, x)) = Cardinality(SlotsOf(q, x)) + 1
            /\ Cardinality(SlotsOf(r, x)) >= 2
            /\ x \in DOMAIN r.map
            /\ Cardinality(DOMAIN r.map) < size(r)
            /\ IndexConsistent(q) => DOMAIN r.map = DOMAIN q.map
            /\ r.map[x] \in SlotsOf(r, x)
            /\ get_weight(r, x) = <<"Some", w>>
            /\ \A new_value \in Prios :
                  LET c == change_priority(r, new_value, x) IN
                  /\ c.ret = <<"Ok">>
                  /\ size(c.q) = size(r)
                  /\ \A e \in Prios \X {x} :
                        Count(c.q, e) = Count(r, e)
                            - (IF e = <<w, x>> THEN 1 ELSE 0)
                            + (IF e = <<new_value, x>> THEN 1 ELSE 0)
            /\ \A new_ref \in DupItems \ {x} :
                  LET f == set_ref(r, x, new_ref) IN
                  /\ f.ret = <<"Ok">>
                  /\ Cardinality(SlotsOf(f.q, x)) = Cardinality(SlotsOf(r, x)) - 1
                  /\ get_weight(f.q, x) = <<"None">>

\* an identity was enqueued twice with different priorities: it sits in two
\* slots, the index has fewer mappings than size(), and get_weight returns the
\* priority of one slot only
C18_Witness ==
    \E x \in DOMAIN q.map :
        /\ Cardinality(SlotsOf(q, x)) = 2
        /\ Cardinality(DOMAIN q.map) < size(q)
        /\ \E i \in SlotsOf(q, x) :
              /\ i # q.map[x]
              /\ At(q.heap, i)[1] # At(q.heap, q.map[x])[1]
        /\ get_weight(q, x) = <<"Some", At(q.heap, q.map[x])[1]>>

\* what n successive deq calls on queue s return, in call order
RECURSIVE DeqTimes(_, _)
DeqTimes(s, n) ==
    IF n = 0 THEN <<>> ELSE <<deq(s).ret>> \o DeqTimes(deq(s).q, n - 1)

\* C19: the items in the heap store are exactly the items enqueued and not yet
\* returned by deq, each in one slot; calling deq size() times returns each of
\* them exactly once, paired with the priority most recently assigned to it.
C19_NoEntryLost ==
    /\ StoredItems(q) = DOMAIN assigned
    /\ Cardinality(StoredItems(q)) = size(q)
    /\ LET d == DeqTimes(q, size(q)) IN
       /\ \A i \in DOMAIN d : d[i][1] = "Some"
       /\ \A i, j \in DOMAIN d : i # j => d[i][3] # d[j][3]
       /\ {<<d[i][2], d[i][3]>> : i \in DOMAIN d}
              = {<<assigned[x], x>> : x \in DOMAIN assigned}

\* three or more entries with different priorities, an entry extracted or
\* rebound before (an identity is missing), and the first entry deq returns is
\* not the one with the lowest identity: all of them come out, each once
C19_Witness ==
    /\ size(q) >= 3
    /\ DOMAIN assigned # Items
    /\ \E x, y \in DOMAIN assigned : assigned[x] # assigned[y]
    /\ LET d == DeqTimes(q, size(q)) IN
       /\ Len(d) = size(q)
       /\ \E x \in DOMAIN assigned : x < d[1][3]
       /\ {d[i][3] : i \in DOMAIN d} = DOMAIN assigned

\* C20: after any sequence of public calls, duplicate enq and set_ref onto an
\* enqueued identity included, every slot number in the position index is
\* smaller than size(); get_weight, change_priority and set_ref do not panic
\* on an index, and enq and deq run through with every index they compute
\* inside the heap store.
C20_NoOutOfBounds ==
    /\ \A x \in DOMAIN q.map : q.map[x] \in 0 .. size(q) - 1
    /\ \A x \in DupItems :
          /\ get_weight(q, x) # <<"Panic">>
          /\ \A value \in Prios :
                /\ change_priority(q, value, x).ret # <<"Panic">>
                /\ size(enq(q, value, x)) = size(q) + 1
          /\ \A new_ref \in DupItems : set_ref(q, x, new_ref).ret # <<"Panic">>
    /\ deq(q).ret[1] = IF size(q) = 0 THEN "None" ELSE "Some"

\* an identity was enqueued twice and one of its entries extracted, which took
\* its mapping away: an entry of it is still stored, unmapped, next to a mapped
\* entry, and every lookup and deq still run without a panic
C20_Witness ==
    /\ size(q) >= 2
    /\ \E x \in StoredItems(q) \ DOMAIN q.map : get_weight(q, x) = <<"None">>
    /\ \E y \in DOMAIN q.map : get_weight(q, y)[1] = "Some"
    /\ deq(q).ret[1] = "Some"

====
